---- MODULE Spec2Model ----
(***************************************************************************)
(* MNIST PyTorch workload                                                  *)
(* (algorithmic_efficiency/workloads/mnist/mnist_pytorch/workload.py).     *)
(*                                                                         *)
(* Two state machines share this module:                                   *)
(*   Spec / FairSpec : MnistWorkload._build_input_queue run by every       *)
(*                     process of the topology (rank 0 pulls the upstream  *)
(*                     iterator; with DDP the three tensors are broadcast).*)
(*   ApiSpec         : the harness-facing calls is_output_params,          *)
(*                     model_fn, loss_fn, _eval_model on one model, and    *)
(*                     the per-device batch size computation.              *)
(*                                                                         *)
(* A tensor is a record [shape, dtype, data].  For a batch tensor the data *)
(* is kept per example (one entry per index of the leading example axes);  *)
(* the trailing axes 28 x 28 x 1 of an image are carried by the shape.     *)
(***************************************************************************)
EXTENDS Integers, Sequences, FiniteSets, TLC

\* ------------------------------------------------------------------ bounds
MaxN == 3
MaxGlobal == 4
MaxBatches == 2
MaxPad == 1
MaxLen == 3

\* ------------------------------------------------------- program constants
IMG_H == 28
IMG_W == 28
IMG_C == 1
num_classes == 10
SRC_RANK == 0

VARIABLES
  N_GPUS,             \* number of devices / processes of the topology
  USE_PYTORCH_DDP,    \* TRUE: one process per device (mode A); FALSE: one process (mode B)
  global_batch_size,
  upstream,           \* the batches the base class' iterator will produce, in order
  np_pos,             \* how many of them rank 0 has pulled from np_iter
  pc,                 \* per rank: position in the generator body
  fld,                \* per rank: which of inputs, targets, weights is being distributed
  loc,                \* per rank: the local variables inputs, targets, weights
  calls,              \* per rank: the dist.broadcast calls issued so far
  ncomplete,          \* per rank: how many of its broadcast calls have returned
  out,                \* per rank: the batches yielded so far
  status,             \* per rank: "running", or the exception the generator ended with
  training,           \* model.training of the one parameter container
  call,               \* the last harness-facing call and its arguments
  ret                 \* what that call returned

distVars == <<N_GPUS, USE_PYTORCH_DDP, global_batch_size, upstream, np_pos,
              pc, fld, loc, calls, ncomplete, out, status>>
apiVars == <<training, call, ret>>
vars == <<N_GPUS, USE_PYTORCH_DDP, global_batch_size, upstream, np_pos,
          pc, fld, loc, calls, ncomplete, out, status, training, call, ret>>

None == "None"

\* ----------------------------------------------------------- tensor algebra
RECURSIVE SeqSum(_)
SeqSum(s) == IF s = <<>> THEN 0 ELSE Head(s) + SeqSum(Tail(s))

Tensor(shape, dtype, data) == [shape |-> shape, dtype |-> dtype, data |-> data]

\* torch.as_tensor(array, dtype=...): same shape, every element converted.
\* A bool element takes part in arithmetic as 0 or 1 and is kept as such.
Cast(v, dtype) ==
  CASE dtype = "bool" -> (IF v # 0 THEN 1 ELSE 0)
    [] dtype = "long" -> v
    [] dtype = "float32" -> v

as_tensor(arr, dtype) ==
  Tensor(arr.shape, dtype, [i \in 1..Len(arr.data) |-> Cast(arr.data[i], dtype)])

\* t[r]: index r on the first axis; the second axis becomes the first.
IndexFirstAlwaysZero(t, r) ==
  Tensor(Tail(t.shape), t.dtype, SubSeq(t.data, 1, t.shape[2]))
IndexFirst(t, r) ==
  Tensor(Tail(t.shape), t.dtype,
         SubSeq(t.data, r * t.shape[2] + 1, (r + 1) * t.shape[2]))

\* t.view(-1, *t.shape[2:]): the first two axes are merged, -1 is inferred.
ViewFlatten(t) ==
  Tensor(<<t.shape[1] * t.shape[2]>> \o SubSeq(t.shape, 3, Len(t.shape)),
         t.dtype, t.data)

\* t.permute(*dims): axis i of the result is axis dims[i] of t (0-based).
PermuteIdentity(t, dims) == t
Permute(t, dims) ==
  Tensor([i \in 1..Len(dims) |-> t.shape[dims[i] + 1]], t.dtype, t.data)

\* torch.empty(shape, dtype=...): allocated, contents not initialised.
Uninit == "uninit"
Empty(shape, dtype) ==
  Tensor(shape, dtype, [i \in 1..(shape[1] * shape[2]) |-> Uninit])

\* ------------------------------------------------------ _build_input_queue
\* int(global_batch_size / N_GPUS): true division, then truncation.
PerDeviceCeil(g, n) == (g + n - 1) \div n
per_device_batch_size(g, n) == g \div n

Ranks == IF USE_PYTORCH_DDP THEN 0..(N_GPUS - 1) ELSE {0}
Workers == Ranks \ {SRC_RANK}

FieldNames == <<"inputs", "targets", "weights">>
FieldDtype == [inputs |-> "float32", targets |-> "long", weights |-> "bool"]

\* The shapes of the receive buffers of a rank other than 0.
WorkerBufferShapeNoWorkerAxis(name, g, n) ==
  IF name = "inputs"
    THEN <<1, per_device_batch_size(g, n), IMG_H, IMG_W, IMG_C>>
    ELSE <<1, per_device_batch_size(g, n)>>
WorkerBufferShape(name, g, n) ==
  IF name = "inputs"
    THEN <<n, per_device_batch_size(g, n), IMG_H, IMG_W, IMG_C>>
    ELSE <<n, per_device_batch_size(g, n)>>

\* The order in which a rank other than 0 takes part in the broadcasts.
WorkerFieldSwapped(j) == <<"targets", "inputs", "weights">>[j]
WorkerField(j) == FieldNames[j]
CoordField(j) == FieldNames[j]

\* The base class' iterator: batch k of the split, sharded as
\* [N_GPUS, per_device_batch_size, ...]; example j of batch k carries the
\* identity (k-1)*g + j, its label, and weight 0 when it is padding.
ExampleId(k, j, g) == (k - 1) * g + j
UpstreamBatch(k, g, n, last, pad) ==
  [inputs  |-> Tensor(<<n, g \div n, IMG_H, IMG_W, IMG_C>>, "float32",
                      [j \in 1..g |-> ExampleId(k, j, g)]),
   targets |-> Tensor(<<n, g \div n>>, "int32",
                      [j \in 1..g |-> ExampleId(k, j, g) % num_classes]),
   weights |-> Tensor(<<n, g \div n>>, "float32",
                      [j \in 1..g |-> IF k = last /\ j > g - pad THEN 0 ELSE 1])]

NoTensor == Tensor(<<>>, None, <<>>)
NoLocals == [inputs |-> NoTensor, targets |-> NoTensor, weights |-> NoTensor]

\* An exception leaving the generator body: StopIteration raised inside a
\* generator reaches the caller of next() as RuntimeError (the file needs
\* Python >= 3.7: it uses contextlib.nullcontext).
GeneratorExit(exc) == IF exc = "StopIteration" THEN "RuntimeError" ELSE exc

DistInit ==
  /\ N_GPUS \in 1..MaxN
  /\ USE_PYTORCH_DDP \in BOOLEAN
  /\ global_batch_size \in {g \in 1..MaxGlobal : g % N_GPUS = 0}
  /\ \E len \in 0..MaxBatches, pad \in 0..MaxPad :
       upstream = [k \in 1..len |->
                     UpstreamBatch(k, global_batch_size, N_GPUS, len, pad)]
  /\ np_pos = 0
  /\ pc = [r \in Ranks |-> "suspended"]
  /\ fld = [r \in Ranks |-> 1]
  /\ loc = [r \in Ranks |-> NoLocals]
  /\ calls = [r \in Ranks |-> <<>>]
  /\ ncomplete = [r \in Ranks |-> 0]
  /\ out = [r \in Ranks |-> <<>>]
  /\ status = [r \in Ranks |-> "running"]

ApiIdle ==
  /\ training = TRUE
  /\ call = [op |-> None]
  /\ ret = [value |-> None]

Init == DistInit /\ ApiIdle

topology == <<N_GPUS, USE_PYTORCH_DDP, global_batch_size, upstream>>

\* The harness asks rank r for its next batch: the generator resumes after
\* its yield (or starts) and enters the loop body.
Request(r) ==
  /\ pc[r] = "suspended"
  /\ status[r] = "running"
  /\ pc' = [pc EXCEPT ![r] = IF r = SRC_RANK THEN "pull" ELSE "issue"]
  /\ fld' = [fld EXCEPT ![r] = 1]
  /\ UNCHANGED <<topology, np_pos, loc, calls, ncomplete, out, status, apiVars>>

\* Rank 0: batch = next(np_iter) and the three conversions.
Pull ==
  /\ pc[SRC_RANK] = "pull"
  /\ np_pos < Len(upstream)
  /\ LET batch == upstream[np_pos + 1] IN
       loc' = [loc EXCEPT ![SRC_RANK] =
                 [inputs  |-> as_tensor(batch.inputs, FieldDtype.inputs),
                  targets |-> as_tensor(batch.targets, FieldDtype.targets),
                  weights |-> as_tensor(batch.weights, FieldDtype.weights)]]
  /\ np_pos' = np_pos + 1
  /\ pc' = [pc EXCEPT ![SRC_RANK] = IF USE_PYTORCH_DDP THEN "issue" ELSE "view"]
  /\ UNCHANGED <<topology, fld, calls, ncomplete, out, status, apiVars>>

\* Rank 0: next(np_iter) on the exhausted iterator raises StopIteration in
\* the generator body; nothing catches it.
PullExhausted ==
  /\ pc[SRC_RANK] = "pull"
  /\ np_pos >= Len(upstream)
  /\ status' = [status EXCEPT ![SRC_RANK] = GeneratorExit("StopIteration")]
  /\ pc' = [pc EXCEPT ![SRC_RANK] = "raised"]
  /\ UNCHANGED <<topology, np_pos, fld, loc, calls, ncomplete, out, apiVars>>

BroadcastCall(name, t) ==
  [name |-> name, src |-> SRC_RANK, shape |-> t.shape, dtype |-> t.dtype]

\* After the broadcast of one field returned: the next field, or the yield.
AfterField(r) ==
  /\ pc' = [pc EXCEPT ![r] = IF fld[r] < Len(FieldNames) THEN "issue" ELSE "yield"]
  /\ fld' = [fld EXCEPT ![r] = IF fld[r] < Len(FieldNames) THEN fld[r] + 1 ELSE 1]

\* Rank 0 enters dist.broadcast(<field>, src=0).
CoordIssue ==
  /\ pc[SRC_RANK] = "issue"
  /\ LET name == CoordField(fld[SRC_RANK]) IN
       calls' = [calls EXCEPT ![SRC_RANK] =
                   Append(@, BroadcastCall(name, loc[SRC_RANK][name]))]
  /\ pc' = [pc EXCEPT ![SRC_RANK] = "wait"]
  /\ UNCHANGED <<topology, np_pos, fld, loc, ncomplete, out, status, apiVars>>

\* Rank 0's broadcast returns once every other rank has received it; then
\* <field> = <field>[0].
CoordComplete ==
  /\ pc[SRC_RANK] = "wait"
  /\ \A w \in Workers : ncomplete[w] >= Len(calls[SRC_RANK])
  /\ LET name == CoordField(fld[SRC_RANK]) IN
       loc' = [loc EXCEPT ![SRC_RANK][name] = IndexFirst(@, 0)]
  /\ ncomplete' = [ncomplete EXCEPT ![SRC_RANK] = @ + 1]
  /\ AfterField(SRC_RANK)
  /\ UNCHANGED <<topology, np_pos, calls, out, status, apiVars>>

\* Rank 0 without DDP: the three views.
View ==
  /\ pc[SRC_RANK] = "view"
  /\ loc' = [loc EXCEPT ![SRC_RANK] =
               [inputs  |-> ViewFlatten(@.inputs),
                targets |-> ViewFlatten(@.targets),
                weights |-> ViewFlatten(@.weights)]]
  /\ pc' = [pc EXCEPT ![SRC_RANK] = "yield"]
  /\ UNCHANGED <<topology, np_pos, fld, calls, ncomplete, out, status, apiVars>>

\* Rank r > 0 allocates the receive buffer and enters dist.broadcast.
WorkerIssue(r) ==
  /\ r \in Workers
  /\ pc[r] = "issue"
  /\ LET name == WorkerField(fld[r])
         buf == Empty(WorkerBufferShape(name, global_batch_size, N_GPUS),
                      FieldDtype[name])
     IN /\ loc' = [loc EXCEPT ![r][name] = buf]
        /\ calls' = [calls EXCEPT ![r] = Append(@, BroadcastCall(name, buf))]
  /\ pc' = [pc EXCEPT ![r] = "wait"]
  /\ UNCHANGED <<topology, np_pos, fld, ncomplete, out, status, apiVars>>

\* The j-th collective of rank r is matched by the j-th collective of rank
\* 0 when rank 0 is inside it and both give the same shape and dtype.
Matched(r) ==
  /\ pc[SRC_RANK] = "wait"
  /\ Len(calls[SRC_RANK]) = Len(calls[r])
  /\ calls[SRC_RANK][Len(calls[r])].shape = calls[r][Len(calls[r])].shape
  /\ calls[SRC_RANK][Len(calls[r])].dtype = calls[r][Len(calls[r])].dtype

\* Rank r > 0: the broadcast fills the buffer with rank 0's tensor and
\* returns; then <field> = <field>[RANK].
WorkerComplete(r) ==
  /\ r \in Workers
  /\ pc[r] = "wait"
  /\ ncomplete[r] < Len(calls[r])
  /\ Matched(r)
  /\ LET name == WorkerField(fld[r])
         sent == loc[SRC_RANK][calls[SRC_RANK][Len(calls[r])].name]
     IN loc' = [loc EXCEPT ![r][name] = IndexFirst(sent, r)]
  /\ ncomplete' = [ncomplete EXCEPT ![r] = @ + 1]
  /\ AfterField(r)
  /\ UNCHANGED <<topology, np_pos, calls, out, status, apiVars>>

\* batch = {inputs.permute(0, 3, 1, 2), targets, weights}; yield batch.
Yield(r) ==
  /\ pc[r] = "yield"
  /\ out' = [out EXCEPT ![r] =
               Append(@, [inputs  |-> Permute(loc[r].inputs, <<0, 3, 1, 2>>),
                          targets |-> loc[r].targets,
                          weights |-> loc[r].weights])]
  /\ pc' = [pc EXCEPT ![r] = "suspended"]
  /\ UNCHANGED <<topology, np_pos, fld, loc, calls, ncomplete, status, apiVars>>

Next ==
  \/ \E r \in Ranks : Request(r)
  \/ Pull
  \/ PullExhausted
  \/ CoordIssue
  \/ CoordComplete
  \/ View
  \/ \E r \in Ranks : WorkerIssue(r)
  \/ \E r \in Ranks : WorkerComplete(r)
  \/ \E r \in Ranks : Yield(r)

Spec == Init /\ [][Next]_vars

\* Every process runs when it can and the harness keeps asking every rank
\* for its next batch.
FairSpec ==
  /\ Init
  /\ [][Next]_vars
  /\ \A r \in 0..(MaxN - 1) : WF_vars(r \in Ranks /\ Request(r))
  /\ WF_vars(Pull)
  /\ WF_vars(PullExhausted)
  /\ WF_vars(CoordIssue)
  /\ WF_vars(CoordComplete)
  /\ WF_vars(View)
  /\ \A r \in 0..(MaxN - 1) : WF_vars(WorkerIssue(r))
  /\ \A r \in 0..(MaxN - 1) : WF_vars(WorkerComplete(r))
  /\ \A r \in 0..(MaxN - 1) : WF_vars(r \in Ranks /\ Yield(r))

\* ------------------------------------------------- the harness-facing calls
\* _Model.__init__: nn.Sequential of layer1 (Linear, bias), layer1_sig,
\* layer2 (Linear, bias), held in the attribute net.
LinearLayers == <<"layer1", "layer2">>
ParamName(layer, kind) == "net." \o layer \o "." \o kind
ModelParamNames ==
  {ParamName(LinearLayers[i], kind) : i \in 1..Len(LinearLayers), kind \in {"weight", "bias"}}
FinalLayer == LinearLayers[Len(LinearLayers)]

OtherStrings == {"net_layer2.bias", "net.layer1_sig.weight", "layer2.weight", ""}
ParamKeys == ModelParamNames \cup OtherStrings

is_output_params(param_key) ==
  param_key \in {"net.layer2.weight", "net_layer2.bias"}

EVAL == "EVAL"
TRAIN == "TRAIN"

\* Class scores of one example: class c is entry c + 1.
PeakRow(c) == [i \in 1..num_classes |-> IF i = c + 1 THEN 3 ELSE 0]
TieRow(a, b) == [i \in 1..num_classes |-> IF i \in {a + 1, b + 1} THEN 3 ELSE 1]
LogitRows == {PeakRow(0), PeakRow(num_classes - 1), TieRow(1, num_classes - 1)}
Labels == {0, 1, num_classes - 1}
Smoothings == {0, 1}

SeqsUpTo(S, n) == UNION {[1..m -> S] : m \in 0..n}

\* torch.max(logits, 1)[1]: per row the index of the first maximal value.
RECURSIVE ArgMaxFrom(_, _, _)
ArgMaxFrom(row, i, best) ==
  IF i > Len(row) THEN best - 1
  ELSE ArgMaxFrom(row, i + 1, IF row[i] > row[best] THEN i ELSE best)
ArgMax(row) == ArgMaxFrom(row, 2, 1)

RowMax(row) == row[ArgMax(row) + 1]

\* F.cross_entropy(logits, labels, reduction='none', label_smoothing=s):
\* one positive loss per example, in integer units (it grows with the gap
\* between the best score and the label's score, and with the smoothing).
cross_entropy(logits, labels, s) ==
  [i \in 1..Len(logits) |-> RowMax(logits[i]) - logits[i][labels[i] + 1] + 1 + s]

RECURSIVE GCD(_, _)
GCD(a, b) == IF b = 0 THEN a ELSE GCD(b, a % b)

\* Tensor division a / b of non-negative quantities: a reduced fraction,
\* and the float outcomes of a zero divisor (no exception).
Float(kind, num, den) == [kind |-> kind, num |-> num, den |-> den]
TrueDivide(a, b) ==
  IF b = 0 THEN (IF a = 0 THEN Float("nan", 0, 0) ELSE Float("inf", 0, 0))
  ELSE Float("finite", a \div GCD(a, b), b \div GCD(a, b))

\* An optional argument or dictionary entry: absent (None), or given.
Absent == [given |-> FALSE]
Given(x) == [given |-> TRUE, v |-> x]
OptionalMasks(n) == {Absent} \cup {Given(m) : m \in [1..n -> {0, 1}]}

\* loss_fn: (summed_loss / n_valid_examples, per_example_losses).
loss_fn_mean_over_batch(label_batch, logits_batch, mask_batch, label_smoothing) ==
  LET raw == cross_entropy(logits_batch, label_batch, label_smoothing)
      per_example_losses ==
        IF mask_batch.given
          THEN [i \in 1..Len(raw) |-> raw[i] * mask_batch.v[i]]
          ELSE raw
  IN [value |-> TrueDivide(SeqSum(per_example_losses), Len(per_example_losses)),
      per_example |-> per_example_losses]
loss_fn(label_batch, logits_batch, mask_batch, label_smoothing) ==
  LET raw == cross_entropy(logits_batch, label_batch, label_smoothing)
      per_example_losses ==
        IF mask_batch.given
          THEN [i \in 1..Len(raw) |-> raw[i] * mask_batch.v[i]]
          ELSE raw
      n_valid_examples ==
        IF mask_batch.given THEN SeqSum(mask_batch.v) ELSE Len(per_example_losses)
      summed_loss == SeqSum(per_example_losses)
  IN [value |-> TrueDivide(summed_loss, n_valid_examples),
      per_example |-> per_example_losses]

\* model_fn: what it does to the model and the context of the forward pass.
ModelAfterCall(mode, wasTraining) ==
  IF mode = EVAL THEN FALSE ELSE wasTraining
GradEnabled(mode) == mode # EVAL

model_fn(mode, logits, wasTraining) ==
  [logits |-> logits,
   model_state |-> None,
   fwd_training |-> ModelAfterCall(mode, wasTraining),
   fwd_grad |-> GradEnabled(mode)]

\* _eval_model: {'accuracy': ..., 'loss': ...}.
ones(n) == [i \in 1..n |-> 1]
eval_model_unmasked_accuracy(targets, batch_weights, logits) ==
  LET weights == IF ~batch_weights.given THEN ones(Len(logits)) ELSE batch_weights.v
      predicted == [i \in 1..Len(logits) |-> ArgMax(logits[i])]
      accuracy ==
        SeqSum([i \in 1..Len(logits) |-> IF predicted[i] = targets[i] THEN 1 ELSE 0])
      losses == loss_fn(targets, logits, Given(weights), 0).per_example
  IN [accuracy |-> accuracy, loss |-> SeqSum(losses)]
eval_model(targets, batch_weights, logits) ==
  LET weights == IF ~batch_weights.given THEN ones(Len(logits)) ELSE batch_weights.v
      predicted == [i \in 1..Len(logits) |-> ArgMax(logits[i])]
      accuracy ==
        SeqSum([i \in 1..Len(logits) |->
                  (IF predicted[i] = targets[i] THEN 1 ELSE 0) * weights[i]])
      losses == loss_fn(targets, logits, Given(weights), 0).per_example
  IN [accuracy |-> accuracy, loss |-> SeqSum(losses)]

\* The head of _build_input_queue on a rank other than 0: line 57 and the
\* three torch.empty allocations.
queue_head(g, n) ==
  IF n = 0
    THEN [error |-> "ZeroDivisionError"]
    ELSE [error |-> None,
          per_device_batch_size |-> per_device_batch_size(g, n),
          buffers |-> [name \in {"inputs", "targets", "weights"} |->
                         Empty(WorkerBufferShape(name, g, n), FieldDtype[name])]]

ApiInit ==
  /\ DistInit
  /\ N_GPUS = 1
  /\ ~USE_PYTORCH_DDP
  /\ global_batch_size = 1
  /\ upstream = <<>>
  /\ ApiIdle

CallIsOutputParams ==
  /\ call.op = None
  /\ \E param_key \in ParamKeys :
    /\ call' = [op |-> "is_output_params", param_key |-> param_key]
    /\ ret' = [value |-> is_output_params(param_key)]
    /\ UNCHANGED <<training, distVars>>

CallModelFn ==
  /\ call.op = None
  /\ \E mode \in {EVAL, TRAIN}, logits \in SeqsUpTo(LogitRows, 1) :
    /\ call' = [op |-> "model_fn", mode |-> mode]
    /\ ret' = model_fn(mode, logits, training)
    /\ training' = ModelAfterCall(mode, training)
    /\ UNCHANGED distVars

CallLossFn ==
  /\ call.op = None
  /\ \E n \in 0..MaxLen :
    \E labels \in [1..n -> Labels], logits \in [1..n -> LogitRows],
       mask \in OptionalMasks(n), s \in Smoothings :
      /\ call' = [op |-> "loss_fn", label_batch |-> labels, logits_batch |-> logits,
                  mask_batch |-> mask, label_smoothing |-> s]
      /\ ret' = loss_fn(labels, logits, mask, s)
      /\ UNCHANGED <<training, distVars>>

CallEvalModel ==
  /\ call.op = None
  /\ \E n \in 0..MaxLen :
    \E targets \in [1..n -> Labels], logits \in [1..n -> LogitRows],
       weights \in OptionalMasks(n) :
      /\ call' = [op |-> "_eval_model", targets |-> targets, weights |-> weights,
                  logits |-> logits]
      /\ ret' = eval_model(targets, weights, logits)
      /\ training' = ModelAfterCall(EVAL, training)
      /\ UNCHANGED distVars

CallQueueHead ==
  /\ call.op = None
  /\ \E g \in 0..(2 * MaxGlobal), n \in 0..MaxN :
    /\ call' = [op |-> "_build_input_queue", global_batch_size |-> g, N_GPUS |-> n]
    /\ ret' = queue_head(g, n)
    /\ UNCHANGED <<training, distVars>>

\* The harness takes the result; the model keeps its mode.
Return ==
  /\ call.op # None
  /\ call' = [op |-> None]
  /\ ret' = [value |-> None]
  /\ UNCHANGED <<training, distVars>>

ApiNext ==
  \/ Return
  \/ CallIsOutputParams
  \/ CallModelFn
  \/ CallLossFn
  \/ CallEvalModel
  \/ CallQueueHead

ApiSpec == ApiInit /\ [][ApiNext]_vars

\* ================================================================= claims

Min(a, b) == IF a < b THEN a ELSE b
RECURSIVE SumOver(_, _)
SumOver(S, f) ==
  IF S = {} THEN 0
  ELSE LET x == CHOOSE y \in S : TRUE IN f[x] + SumOver(S \ {x}, f)

\* The three shapes of a yielded batch whose leading axis has n examples.
HasBatchShape(b, n) ==
  /\ b.inputs.shape = <<n, 1, 28, 28>>
  /\ b.targets.shape = <<n>>
  /\ b.weights.shape = <<n>>

\* C1 as stated: in both modes and on every rank each yielded batch has
\* inputs [per_device_batch_size, 1, 28, 28], targets and weights
\* [per_device_batch_size], with per_device_batch_size = global_batch_size / N.
C1_PerDeviceShapeInBothModes ==
  \A r \in Ranks : \A k \in 1..Len(out[r]) :
    HasBatchShape(out[r][k], global_batch_size \div N_GPUS)

\* C1 (amended): with DDP (mode A) every rank's batch has the per-device
\* shapes; without DDP (mode B) the one process yields the whole global
\* batch: inputs [global_batch_size, 1, 28, 28], targets and weights
\* [global_batch_size].
C1_BatchShapes ==
  \A r \in Ranks : \A k \in 1..Len(out[r]) :
    HasBatchShape(out[r][k],
                  IF USE_PYTORCH_DDP THEN global_batch_size \div N_GPUS
                                     ELSE global_batch_size)

C1_Witness ==
  /\ USE_PYTORCH_DDP
  /\ N_GPUS >= 2
  /\ global_batch_size \div N_GPUS >= 2
  /\ \A r \in Ranks : Len(out[r]) >= 1

\* What mode B yields for one upstream batch.
ModeBBatch(batch) ==
  [inputs  |-> Permute(ViewFlatten(as_tensor(batch.inputs, "float32")), <<0, 3, 1, 2>>),
   targets |-> ViewFlatten(as_tensor(batch.targets, "long")),
   weights |-> ViewFlatten(as_tensor(batch.weights, "bool"))]

\* t1 followed by t2 along the first axis.
Cat(t1, t2) ==
  Tensor(<<t1.shape[1] + t2.shape[1]>> \o Tail(t1.shape), t1.dtype, t1.data \o t2.data)

\* The k-th batches of ranks 0..r, concatenated in rank order.
RECURSIVE Aggregate(_, _)
Aggregate(k, r) ==
  IF r = 0 THEN out[0][k]
  ELSE LET a == Aggregate(k, r - 1)
       IN [inputs  |-> Cat(a.inputs, out[r][k].inputs),
           targets |-> Cat(a.targets, out[r][k].targets),
           weights |-> Cat(a.weights, out[r][k].weights)]

StepsYieldedByAll == {k \in 1..Len(upstream) : \A r \in Ranks : Len(out[r]) >= k}

\* C2: for every step k that every rank has yielded, the k-th batches of
\* the ranks concatenated in rank order are the batch mode B yields for the
\* k-th upstream batch (same shapes, dtypes and contents), and its inputs are
\* exactly the examples of that upstream batch, each once and in order.
C2_ModesAgree ==
  \A k \in StepsYieldedByAll :
    LET agg == IF USE_PYTORCH_DDP THEN Aggregate(k, N_GPUS - 1) ELSE out[0][k]
    IN /\ agg = ModeBBatch(upstream[k])
       /\ agg.inputs.data = [j \in 1..global_batch_size |-> ExampleId(k, j, global_batch_size)]
       /\ agg.weights.data = upstream[k].weights.data

C2_Witness ==
  /\ USE_PYTORCH_DDP
  /\ N_GPUS >= 2
  /\ StepsYieldedByAll = 1..2
  /\ \E j \in 1..global_batch_size : upstream[2].weights.data[j] = 0

\* C7 as stated: when the upstream iterator is exhausted the caller of the
\* batch sequence gets the end-of-sequence signal (StopIteration), and rank 0
\* has yielded no batch and issued no broadcast for that step.
C7_EndOfSequenceReachesCaller ==
  pc[SRC_RANK] = "raised" =>
    /\ status[SRC_RANK] = "StopIteration"
    /\ Len(out[SRC_RANK]) = Len(upstream)
    /\ Len(calls[SRC_RANK]) = (IF USE_PYTORCH_DDP THEN 3 * Len(upstream) ELSE 0)

\* The broadcast calls a rank has issued are inputs, targets, weights, in
\* that order, again and again, each with source rank 0.
CallsInOrder(r) ==
  \A j \in 1..Len(calls[r]) :
    /\ calls[r][j].name = <<"inputs", "targets", "weights">>[((j - 1) % 3) + 1]
    /\ calls[r][j].src = 0

CallsMatchCoordinator(r) ==
  \A j \in 1..Min(Len(calls[r]), Len(calls[0])) : calls[r][j] = calls[0][j]

\* C8: with DDP, every rank issues per step exactly three broadcasts with
\* source 0 in the order inputs, targets, weights, its j-th call has the
\* name, shape and dtype of rank 0's j-th call, and under fair scheduling
\* every rank yields every batch the upstream provides (nobody blocks while
\* the upstream has batches).
C8_BroadcastsMatch ==
  /\ [](USE_PYTORCH_DDP =>
          \A r \in Ranks :
            /\ CallsInOrder(r)
            /\ CallsMatchCoordinator(r)
            /\ (pc[r] = "suspended" => Len(calls[r]) = 3 * Len(out[r])))
  /\ <>(USE_PYTORCH_DDP => \A r \in Ranks : Len(out[r]) = Len(upstream))

C8_Witness ==
  /\ USE_PYTORCH_DDP
  /\ N_GPUS = MaxN
  /\ \A r \in Ranks : Len(out[r]) = 2 /\ Len(calls[r]) = 6

\* Rank r waits in the inputs broadcast of step Len(upstream) + 1.
BlockedAfterLast(r) ==
  /\ pc[r] = "wait"
  /\ calls[r][Len(calls[r])].name = "inputs"
  /\ Len(calls[r]) = 3 * Len(upstream) + 1
  /\ Len(out[r]) = Len(upstream)
  /\ status[r] = "running"

\* C10: with DDP and N >= 2, when the upstream ends after k batches, no
\* rank other than 0 ever yields more than k batches or ends with an
\* exception; once rank 0 has failed, a rank waiting in the inputs broadcast
\* of step k + 1 waits there for ever; and when the harness keeps asking,
\* every such rank ends up like that, having yielded exactly k batches.
C10_WorkersBlockForever ==
  /\ [](\A r \in Workers : Len(out[r]) <= Len(upstream) /\ status[r] = "running")
  /\ [][\A r \in Workers :
          (pc[SRC_RANK] = "raised" /\ BlockedAfterLast(r)) => BlockedAfterLast(r)']_vars
  /\ <>[](\A r \in Workers : pc[SRC_RANK] = "raised" /\ BlockedAfterLast(r))

C10_Witness ==
  /\ USE_PYTORCH_DDP
  /\ N_GPUS >= 2
  /\ Len(upstream) = 2
  /\ pc[SRC_RANK] = "raised"
  /\ \A r \in Workers : BlockedAfterLast(r)

\* C3 as stated: is_output_params(name) is true exactly for the weight and
\* the bias of the final linear layer, false for the other parameters of the
\* model and for any other string.
C3_ExactlyFinalLayer ==
  call.op = "is_output_params" =>
    (ret.value <=> call.param_key \in {ParamName(FinalLayer, "weight"),
                                       ParamName(FinalLayer, "bias")})

\* C4 as stated: whatever calls came before on the same model, an EVAL call
\* runs the forward pass in evaluation mode without gradient tracking, a
\* TRAIN call runs it in training mode with gradient tracking, and every
\* call returns None as the auxiliary state.
C4_ForwardPassFollowsMode ==
  call.op = "model_fn" =>
    /\ ret.model_state = None
    /\ call.mode = EVAL => (~ret.fwd_training /\ ~ret.fwd_grad)
    /\ call.mode = TRAIN => (ret.fwd_training /\ ret.fwd_grad)

\* row has its first maximal value at class c.
IsFirstMax(row, c) ==
  /\ \A i \in 1..Len(row) : row[i] <= row[c + 1]
  /\ \A i \in 1..c : row[i] < row[c + 1]

\* The mask of a call: the given one, or all ones.
MaskAt(m, i) == IF m.given THEN m.v[i] ELSE 1
Valid(m, n) == {i \in 1..n : MaskAt(m, i) = 1}

C6_MaskedMean ==
  call.op = "loss_fn" =>
    LET n == Len(call.logits_batch)
        m == call.mask_batch
        valid == Valid(m, n)
        raw == cross_entropy(call.logits_batch, call.label_batch, call.label_smoothing)
    IN /\ valid # {} =>
            /\ ret.value.kind = "finite"
            /\ ret.value.num * Cardinality(valid) = SumOver(valid, raw) * ret.value.den
       /\ valid = {} => ret.value.kind = "nan"
       /\ valid = 1..n =>
            /\ ret.value =
                 loss_fn(call.label_batch, call.logits_batch, Absent,
                         call.label_smoothing).value
            /\ n > 0 => ret.value.num * n = SumOver(1..n, raw) * ret.value.den
       /\ \A i \in 1..n : ret.per_example[i] = raw[i] * MaskAt(m, i)

C6_Witness ==
  /\ call.op = "loss_fn"
  /\ call.mask_batch.given
  /\ Len(call.logits_batch) >= 2
  /\ \A i \in 1..Len(call.logits_batch) : call.mask_batch.v[i] = 0
  /\ ret.value.kind = "nan"

\* C9: for every global_batch_size >= 0 and N >= 1 the head of
\* _build_input_queue raises nothing, per_device_batch_size is
\* global_batch_size / N truncated, N * per_device_batch_size equals
\* global_batch_size exactly when N divides it, and otherwise the receive
\* buffers of a rank other than 0 hold N * per_device_batch_size <
\* global_batch_size examples.
C9_TruncatedPerDevice ==
  (call.op = "_build_input_queue" /\ call.N_GPUS >= 1) =>
    LET g == call.global_batch_size
        n == call.N_GPUS
        per == ret.per_device_batch_size
    IN /\ ret.error = None
       /\ per >= 0 /\ n * per <= g /\ g < n * (per + 1)
       /\ (n * per = g) <=> (g % n = 0)
       /\ g % n # 0 =>
            \A name \in {"inputs", "targets", "weights"} :
              /\ ret.buffers[name].shape[1] * ret.buffers[name].shape[2] = n * per
              /\ Len(ret.buffers[name].data) = n * per
              /\ n * per < g

C9_Witness ==
  /\ call.op = "_build_input_queue"
  /\ call.N_GPUS = 3
  /\ call.global_batch_size = 7
  /\ ret.per_device_batch_size = 2
  /\ ret.buffers["inputs"].shape = <<3, 2, 28, 28, 1>>

====
